---- MODULE Spec2Model ----
(***************************************************************************)
(* Model of the 4x4 matrix keypad driver (GpioKeypad and Keys, lib.rs).   *)
(*                                                                         *)
(* Pin levels: TRUE is high.  The switch matrix is the environment: a row  *)
(* input reads high exactly when a closed switch connects it to a column   *)
(* output that is driven high (rows rest low; switches are isolated from   *)
(* one another).  The embedded_digi macros are modelled by what they do:   *)
(* write!(.. => true) sets every listed pin high, write!(.. => 4 bit => v) *)
(* sets the pins to the bits of v (first pin = most significant bit),      *)
(* read!(u8; ..) packs the pin levels into a number the same way, and      *)
(* read!(any true; ..) tells whether any listed pin is high.               *)
(*                                                                         *)
(* Option<T> is a sequence of length 0 (None) or 1 (Some).                 *)
(***************************************************************************)
EXTENDS Integers, Sequences, FiniteSets

VARIABLES keymap, cols, closed, done, kip_ret, read_ret, multi_ret,
          last_op, strobes, keys, incl

vars == <<keymap, cols, closed, done, kip_ret, read_ret, multi_ret,
          last_op, strobes, keys, incl>>

scanner == <<keymap, cols, closed, done, kip_ret, read_ret, multi_ret,
             last_op, strobes>>

\* ---------------------------------------------------------------- bounds
MaxClosed == 4
NumAltKeymaps == 2
MaxKeyVal == 2

\* ------------------------------------------------------------- constants
N == 4
U8 == 256

Idx == 0 .. (N - 1)

None == << >>
Some(x) == << x >>

\* ---------------------------------------------------------------- keymaps
DEFAULT_KEYMAP ==
    [r \in Idx |->
        CASE r = 0 -> [c \in Idx |-> <<1, 2, 3, 15>>[c + 1]]
          [] r = 1 -> [c \in Idx |-> <<4, 5, 6, 14>>[c + 1]]
          [] r = 2 -> [c \in Idx |-> <<7, 8, 9, 13>>[c + 1]]
          [] r = 3 -> [c \in Idx |-> <<10, 0, 11, 12>>[c + 1]]]

\* Replacement keymaps handed to with_keymap: odd members repeat key codes,
\* even members have sixteen different codes.
AltKeymap(i) ==
    [r \in Idx |-> [c \in Idx |->
        IF i % 2 = 1 THEN (r + c + i) % U8
                     ELSE (16 * r + c + 16 * i) % U8]]

Keymaps == {DEFAULT_KEYMAP} \cup {AltKeymap(i) : i \in 1 .. NumAltKeymaps}

\* ------------------------------------------------------------- pin level
Pow2(n) == 2 ^ n

\* 1 << pos with pos < 4: the value stays below 16, no width is reached
Shl(x, n) == x * Pow2(n)

Bit(v, i) == (v \div Pow2(i)) % 2

\* level of row input r: high iff a closed switch joins it to a high column
is_high(r, cls, sw) == \E c \in Idx : <<r, c>> \in sw /\ cls[c]

\* digi::read!(u8; row4, row3, row2, row1): row4 is bit 3, row1 is bit 0
read_u8(cls, sw) ==
    (IF is_high(3, cls, sw) THEN 8 ELSE 0)
  + (IF is_high(2, cls, sw) THEN 4 ELSE 0)
  + (IF is_high(1, cls, sw) THEN 2 ELSE 0)
  + (IF is_high(0, cls, sw) THEN 1 ELSE 0)

\* digi::write!(col4, col3, col2, col1 => 4 bit => v): col4 is bit 3, col1 bit 0
write_bits_rev(v) == [c \in Idx |-> Bit(v, (N - 1) - c) = 1]

write_bits(v) == [c \in Idx |-> Bit(v, c) = 1]

\* digi::write!(col1, col2, col3, col4 => true)
reset == [c \in Idx |-> TRUE]

\* ------------------------------------------------------------- read_char
decode_row_no_low(key) ==
    IF key >= 8 /\ key <= 15 THEN Some(3)
    ELSE IF key >= 4 /\ key <= 7 THEN Some(2)
    ELSE IF key = 2 \/ key = 3 THEN Some(1)
    ELSE None

decode_row_exact(key) ==
    IF key >= 8 /\ key <= 15 THEN Some(3)
    ELSE IF key >= 4 /\ key <= 7 THEN Some(2)
    ELSE IF key = 2 THEN Some(1)
    ELSE IF key = 1 THEN Some(0)
    ELSE None

decode_row_lowest(key) ==
    IF key % 2 = 1 THEN Some(0)
    ELSE IF key % 4 = 2 THEN Some(1)
    ELSE IF key % 8 = 4 THEN Some(2)
    ELSE IF key = 8 THEN Some(3)
    ELSE None

\* the match of read_char
decode_row(key) ==
    IF key >= 8 /\ key <= 15 THEN Some(3)
    ELSE IF key >= 4 /\ key <= 7 THEN Some(2)
    ELSE IF key = 2 \/ key = 3 THEN Some(1)
    ELSE IF key = 1 THEN Some(0)
    ELSE None

read_char_transposed(col, cls, sw, km) ==
    LET row == decode_row(read_u8(cls, sw))
    IN  IF row = None THEN None ELSE Some(km[col][row[1]])

read_char(col, cls, sw, km) ==
    LET row == decode_row(read_u8(cls, sw))
    IN  IF row = None THEN None ELSE Some(km[row[1]][col])

\* -------------------------------------------------------- key_is_pressed
key_is_pressed(cls, sw) ==
    is_high(3, cls, sw) \/ is_high(2, cls, sw)
        \/ is_high(1, cls, sw) \/ is_high(0, cls, sw)

\* one row-sampling step, as recorded in strobes
Sample(pos, cls, sw, km) ==
    [pos |-> pos, cols |-> cls, key |-> read_u8(cls, sw),
     row |-> decode_row(read_u8(cls, sw)), got |-> read_char(pos, cls, sw, km)]

\* ------------------------------------------------------------------ read
RECURSIVE read_loop_no_reset(_, _, _, _)
read_loop_no_reset(pos, sw, km, trace) ==
    IF pos = N THEN [ret |-> None, cols |-> reset, strobes |-> trace]
    ELSE LET cls == write_bits(Shl(1, pos))
             t   == Append(trace, Sample(pos, cls, sw, km))
             key == read_char(pos, cls, sw, km)
         IN  IF key # None
             THEN [ret |-> key, cols |-> cls, strobes |-> t]
             ELSE read_loop_no_reset(pos + 1, sw, km, t)

RECURSIVE read_loop_last(_, _, _, _)
read_loop_last(pos, sw, km, trace) ==
    IF pos = N THEN [ret |-> None, cols |-> reset, strobes |-> trace]
    ELSE LET cls  == write_bits(Shl(1, pos))
             t    == Append(trace, Sample(pos, cls, sw, km))
             key  == read_char(pos, cls, sw, km)
             rest == read_loop_last(pos + 1, sw, km, t)
         IN  IF key # None /\ rest.ret = None
             THEN [ret |-> key, cols |-> reset, strobes |-> rest.strobes]
             ELSE rest

\* the for loop of read, from column pos on
RECURSIVE read_loop(_, _, _, _)
read_loop(pos, sw, km, trace) ==
    IF pos = N THEN [ret |-> None, cols |-> reset, strobes |-> trace]
    ELSE LET cls == write_bits(Shl(1, pos))
             t   == Append(trace, Sample(pos, cls, sw, km))
             key == read_char(pos, cls, sw, km)
         IN  IF key # None
             THEN [ret |-> key, cols |-> reset, strobes |-> t]
             ELSE read_loop(pos + 1, sw, km, t)

read(cls, sw, km) ==
    IF ~key_is_pressed(cls, sw)
    THEN [ret |-> None, cols |-> cls, strobes |-> << >>]
    ELSE read_loop(0, sw, km, << >>)

\* ------------------------------------------------------------ read_multi
One(k0) == [variant |-> "One", k |-> <<k0>>]
Two(k0, k1) == [variant |-> "Two", k |-> <<k0, k1>>]
Three(k0, k1, k2) == [variant |-> "Three", k |-> <<k0, k1, k2>>]
Four(k0, k1, k2, k3) == [variant |-> "Four", k |-> <<k0, k1, k2, k3>>]

RECURSIVE read_multi_loop_front(_, _, _, _, _, _)
read_multi_loop_front(pos, sw, km, buf, count, trace) ==
    IF pos = N THEN [buf |-> buf, count |-> count, strobes |-> trace]
    ELSE LET cls == write_bits(Shl(1, pos))
             t   == Append(trace, Sample(pos, cls, sw, km))
             key == read_char(pos, cls, sw, km)
         IN  IF key # None
             THEN read_multi_loop_front(pos + 1, sw, km,
                      [i \in 1 .. N |-> IF i = 1 THEN key[1]
                                        ELSE buf[i - 1]],
                      count + 1, t)
             ELSE read_multi_loop_front(pos + 1, sw, km, buf, count, t)

\* the for loop of read_multi, from column pos on (buf[count] is buf[count+1]
\* here: sequences count from 1)
RECURSIVE read_multi_loop(_, _, _, _, _, _)
read_multi_loop(pos, sw, km, buf, count, trace) ==
    IF pos = N THEN [buf |-> buf, count |-> count, strobes |-> trace]
    ELSE LET cls == write_bits(Shl(1, pos))
             t   == Append(trace, Sample(pos, cls, sw, km))
             key == read_char(pos, cls, sw, km)
         IN  IF key # None
             THEN read_multi_loop(pos + 1, sw, km,
                      [buf EXCEPT ![count + 1] = key[1]], count + 1, t)
             ELSE read_multi_loop(pos + 1, sw, km, buf, count, t)

\* the match on count
assemble(buf, count) ==
    CASE count = 0 -> None
      [] count = 1 -> Some(One(buf[1]))
      [] count = 2 -> Some(Two(buf[1], buf[2]))
      [] count = 3 -> Some(Three(buf[1], buf[2], buf[3]))
      [] count = 4 -> Some(Four(buf[1], buf[2], buf[3], buf[4]))

read_multi(cls, sw, km) ==
    IF ~key_is_pressed(cls, sw)
    THEN [ret |-> None, cols |-> cls, strobes |-> << >>]
    ELSE LET s == read_multi_loop(0, sw, km, <<0, 0, 0, 0>>, 0, << >>)
         IN  [ret |-> assemble(s.buf, s.count), cols |-> reset,
              strobes |-> s.strobes]

\* -------------------------------------------------------- Keys::includes
includes_short(ks, key) ==
    CASE ks.variant = "One" -> ks.k[1] = key
      [] ks.variant = "Two" -> ks.k[1] = key \/ ks.k[2] = key
      [] ks.variant = "Three" -> ks.k[1] = key \/ ks.k[2] = key
      [] ks.variant = "Four" ->
            ks.k[1] = key \/ ks.k[2] = key \/ ks.k[3] = key \/ ks.k[4] = key

includes(ks, key) ==
    CASE ks.variant = "One" -> ks.k[1] = key
      [] ks.variant = "Two" -> ks.k[1] = key \/ ks.k[2] = key
      [] ks.variant = "Three" -> ks.k[1] = key \/ ks.k[2] = key \/ ks.k[3] = key
      [] ks.variant = "Four" ->
            ks.k[1] = key \/ ks.k[2] = key \/ ks.k[3] = key \/ ks.k[4] = key

\* ================================================================ scanner
\* GpioKeypad::new: default keymap, then reset
Init ==
    /\ keymap = DEFAULT_KEYMAP
    /\ cols = reset
    /\ closed = {}
    /\ done = {}
    /\ kip_ret = FALSE
    /\ read_ret = None
    /\ multi_ret = None
    /\ last_op = "new"
    /\ strobes = << >>
    /\ keys = One(0)
    /\ incl = None

\* results recorded so far describe an earlier matrix or keymap
Forget ==
    /\ done' = {}
    /\ kip_ret' = FALSE
    /\ read_ret' = None
    /\ multi_ret' = None
    /\ strobes' = << >>

WithKeymap(km) ==
    /\ keymap' = km
    /\ last_op' = "with_keymap"
    /\ Forget
    /\ UNCHANGED <<cols, closed, keys, incl>>

\* environment: a switch closes
Press(r, c) ==
    /\ <<r, c>> \notin closed
    /\ Cardinality(closed) < MaxClosed
    /\ closed' = closed \cup {<<r, c>>}
    /\ last_op' = "press"
    /\ Forget
    /\ UNCHANGED <<keymap, cols, keys, incl>>

\* environment: a switch opens
Release(r, c) ==
    /\ <<r, c>> \in closed
    /\ closed' = closed \ {<<r, c>>}
    /\ last_op' = "release"
    /\ Forget
    /\ UNCHANGED <<keymap, cols, keys, incl>>

KeyIsPressed ==
    /\ kip_ret' = key_is_pressed(cols, closed)
    /\ done' = done \cup {"key_is_pressed"}
    /\ last_op' = "key_is_pressed"
    /\ strobes' = << >>
    /\ UNCHANGED <<keymap, cols, closed, read_ret, multi_ret, keys, incl>>

Read ==
    LET out == read(cols, closed, keymap)
    IN  /\ read_ret' = out.ret
        /\ cols' = out.cols
        /\ strobes' = out.strobes
        /\ done' = done \cup {"read"}
        /\ last_op' = "read"
        /\ UNCHANGED <<keymap, closed, kip_ret, multi_ret, keys, incl>>

ReadMulti ==
    LET out == read_multi(cols, closed, keymap)
    IN  /\ multi_ret' = out.ret
        /\ cols' = out.cols
        /\ strobes' = out.strobes
        /\ done' = done \cup {"read_multi"}
        /\ last_op' = "read_multi"
        /\ UNCHANGED <<keymap, closed, kip_ret, read_ret, keys, incl>>

Next ==
    \/ \E km \in Keymaps : WithKeymap(km)
    \/ \E r \in Idx, c \in Idx : Press(r, c)
    \/ \E r \in Idx, c \in Idx : Release(r, c)
    \/ KeyIsPressed
    \/ Read
    \/ ReadMulti

Spec == Init /\ [][Next]_vars

\* =================================================================== Keys
KeyVals == 0 .. MaxKeyVal

AllKeys ==
    {One(a) : a \in KeyVals}
        \cup {Two(s[1], s[2]) : s \in KeyVals \X KeyVals}
        \cup {Three(s[1], s[2], s[3]) : s \in KeyVals \X KeyVals \X KeyVals}
        \cup {Four(s[1], s[2], s[3], s[4]) :
                  s \in KeyVals \X KeyVals \X KeyVals \X KeyVals}

InitKeys ==
    /\ keymap = DEFAULT_KEYMAP
    /\ cols = reset
    /\ closed = {}
    /\ done = {}
    /\ kip_ret = FALSE
    /\ read_ret = None
    /\ multi_ret = None
    /\ last_op = "new"
    /\ strobes = << >>
    /\ keys \in AllKeys
    /\ incl = None

Includes(key) ==
    /\ incl' = Some([key |-> key, ret |-> includes(keys, key)])
    /\ UNCHANGED <<scanner, keys>>

NextKeys == \E key \in KeyVals : Includes(key)

SpecKeys == InitKeys /\ [][NextKeys]_vars

\* ================================================================= claims
ClosedRows(c) == {r \in Idx : <<r, c>> \in closed}

PressedCols == {c \in Idx : ClosedRows(c) # {}}

MaxOf(S) == CHOOSE x \in S : \A y \in S : y <= x

MinOf(S) == CHOOSE x \in S : \A y \in S : x <= y

\* number of pressed columns up to and including c
Rank(c) == Cardinality({d \in PressedCols : d <= c})

\* the pressed column that is the i-th in ascending order
ColAt(i) == CHOOSE c \in PressedCols : Rank(c) = i

VariantOf(n) == <<"One", "Two", "Three", "Four">>[n]

AllHigh == \A c \in Idx : cols[c]

ScanOp == last_op \in {"read", "read_multi"}

\* C1: with a single closed switch at (row, col), under any installed keymap,
\* read() returns Some(keymap[row][col]).
C1_SingleKey ==
    \A r \in Idx, c \in Idx :
        ("read" \in done /\ closed = {<<r, c>>})
            => read_ret = Some(keymap[r][c])

C1_Witness ==
    /\ "read" \in done
    /\ closed = {<<3, 2>>}
    /\ keymap = AltKeymap(2)
    /\ read_ret = Some(AltKeymap(2)[3][2])

\* C2: for one set of closed switches, key_is_pressed() is false exactly when
\* read() and read_multi() both return None.
C2_PressedIffSome ==
    ({"key_is_pressed", "read", "read_multi"} \subseteq done)
        => ((kip_ret = FALSE) <=> (read_ret = None /\ multi_ret = None))

C2_Witness ==
    /\ {"key_is_pressed", "read", "read_multi"} \subseteq done
    /\ kip_ret = TRUE
    /\ read_ret # None
    /\ multi_ret # None
    /\ Cardinality(closed) >= 2

\* C3: after construction and after every key_is_pressed(), read() and
\* read_multi() call, all four column outputs are high.
C3_ColumnsIdle == AllHigh

C3_Witness ==
    /\ last_op = "read"
    /\ read_ret # None
    /\ "read_multi" \in done
    /\ Len(strobes) < N
    /\ AllHigh

C5_HighestRowWins ==
    (last_op = "read_multi" /\ closed # {})
        => /\ multi_ret # None
           /\ Len(multi_ret[1].k) = Cardinality(PressedCols)
           /\ \A c \in Idx :
                 Cardinality({i \in DOMAIN strobes :
                                 strobes[i].pos = c /\ strobes[i].got # None})
                     <= 1
           /\ \A c \in PressedCols :
                 Cardinality(ClosedRows(c)) >= 2
                     => multi_ret[1].k[Rank(c)] = keymap[MaxOf(ClosedRows(c))][c]

C5_Witness ==
    /\ last_op = "read_multi"
    /\ closed = {<<0, 1>>, <<1, 1>>, <<2, 3>>}
    /\ multi_ret = Some(Two(keymap[1][1], keymap[2][3]))

\* rows that read as pressed in row pattern key
RowsIn(key) == {r \in Idx : Bit(key, r) = 1}

OneRowCols == {i \in DOMAIN strobes : Cardinality(RowsIn(strobes[i].key)) = 1}

SomeRowCols == {i \in DOMAIN strobes : RowsIn(strobes[i].key) # {}}

Arity(ret) == IF ret = None THEN 0 ELSE Len(ret[1].k)

\* C6 as stated: the arity of read_multi()'s result is the number of columns
\* in which exactly one row read as pressed during the scan.
C6_Original ==
    last_op = "read_multi" => Arity(multi_ret) = Cardinality(OneRowCols)

\* C6 amended: the arity of read_multi()'s result is the number of columns in
\* which at least one row read as pressed during the scan, and the result is
\* None exactly when that number is 0.
C6_ArityCountsPressedColumns ==
    last_op = "read_multi"
        => /\ Arity(multi_ret) = Cardinality(SomeRowCols)
           /\ multi_ret # None => multi_ret[1].variant = VariantOf(Arity(multi_ret))
           /\ (multi_ret = None) <=> (Cardinality(SomeRowCols) = 0)

C6_Witness ==
    /\ last_op = "read_multi"
    /\ closed = {<<0, 1>>, <<1, 1>>, <<3, 2>>}
    /\ Arity(multi_ret) = 2
    /\ Cardinality(OneRowCols) = 1

\* the switches read_multi() reported: (decoded row, column) of every
\* sampling step that yielded a key
Detected == {<<strobes[i].row[1], strobes[i].pos>> :
                 i \in {j \in DOMAIN strobes : strobes[j].got # None}}

\* C7: the keys read_multi() returns come from switches in pairwise distinct
\* rows and pairwise distinct columns.
C7_DistinctRowsAndCols ==
    last_op = "read_multi"
        => \A a \in Detected, b \in Detected :
               a # b => (a[1] # b[1] /\ a[2] # b[2])

\* C8: read() returns the key of the lowest-numbered column that decodes;
\* the columns are strobed in order from 0 and none after that one.
C8_FirstColumnWins ==
    (last_op = "read" /\ closed # {})
        => LET c == MinOf(PressedCols)
           IN  /\ read_ret = Some(keymap[MaxOf(ClosedRows(c))][c])
               /\ Len(strobes) = c + 1
               /\ \A i \in DOMAIN strobes : strobes[i].pos = i - 1
               /\ strobes[c + 1].row = Some(MaxOf(ClosedRows(c)))
               /\ \A i \in 1 .. c : strobes[i].row = None

C8_Witness ==
    /\ last_op = "read"
    /\ closed = {<<1, 2>>, <<3, 2>>, <<0, 3>>}
    /\ read_ret = Some(keymap[3][2])
    /\ Len(strobes) = 3

\* C9: Keys::includes(k) is true exactly when k is one of the keys the
\* variant holds.
C9_Includes ==
    incl # None
        => (incl[1].ret <=> \E i \in DOMAIN keys.k : keys.k[i] = incl[1].key)

C9_Witness ==
    /\ incl # None
    /\ keys = Three(0, 1, 2)
    /\ incl[1].key = 2
    /\ incl[1].ret = TRUE

\* C10 as stated: at every row-sampling step the probed column is driven low
\* and the other three columns are driven high.
C10_Original ==
    ScanOp => \A i \in DOMAIN strobes :
                  \A c \in Idx : strobes[i].cols[c] <=> (c # strobes[i].pos)

\* C10 amended: at every row-sampling step of read() and read_multi() the
\* probed column is driven high and the other three columns are driven low.
C10_ProbedColumnHigh ==
    ScanOp => \A i \in DOMAIN strobes :
                  \A c \in Idx : strobes[i].cols[c] <=> (c = strobes[i].pos)

C10_Witness ==
    /\ last_op = "read_multi"
    /\ Len(strobes) = N
    /\ \A c \in Idx : strobes[3].cols[c] <=> (c = 2)

====
